---- MODULE Spec2Model ----
(***************************************************************************)
(* fix_class_context.py: read src/class_context_extractor.cpp, apply the   *)
(* literal substitution(s) to its text, write the text back to the same    *)
(* path.  Text is a sequence of characters; a file is a record with an     *)
(* existence flag and its data; each run of the script is a process whose  *)
(* position is the source line it executes next.                           *)
(***************************************************************************)
EXTENDS Integers, Sequences, FiniteSets, TLC

VARIABLES fs, perm, rules, pc, content, idx, err, rpath, wpath, lastWriter, fs0

vars == <<fs, perm, rules, pc, content, idx, err, rpath, wpath, lastWriter, fs0>>

(* ------------------------------ bounds --------------------------------- *)
MaxLen == 3
MaxRules == 2
MaxPat == 2
MaxRepl == 2

Alphabet == {"a", "b"}
Procs == {1, 2}

Str(n) == UNION {[1..k -> Alphabet] : k \in 0..n}

(* ------------------------------ files ---------------------------------- *)
Target == "src/class_context_extractor.cpp"
Other == "src/other.cpp"
Paths == {Target, Other}

ReadPath == Target

WritePath_Other == Other
WritePath == Target

Absent == [exists |-> FALSE, data |-> <<>>]
File(s) == [exists |-> TRUE, data |-> s]

(* ------------------------- str.replace(old, new) ----------------------- *)
MatchAt(s, p, i) == i + Len(p) - 1 <= Len(s) /\ SubSeq(s, i, i + Len(p) - 1) = p

RECURSIVE Scan(_, _, _, _)
Scan(s, p, r, i) ==
    IF i > Len(s) THEN <<>>
    ELSE IF MatchAt(s, p, i) THEN r \o Scan(s, p, r, i + Len(p))
    ELSE <<s[i]>> \o Scan(s, p, r, i + 1)

RECURSIVE ScanOverlap(_, _, _, _)
ScanOverlap(s, p, r, i) ==
    IF i > Len(s) THEN <<>>
    ELSE IF MatchAt(s, p, i) THEN r \o ScanOverlap(s, p, r, i + 1)
    ELSE <<s[i]>> \o ScanOverlap(s, p, r, i + 1)

\* an empty old string matches before every character and at the end
RECURSIVE Interleave(_, _, _)
Interleave(s, r, i) ==
    IF i > Len(s) THEN r ELSE r \o <<s[i]>> \o Interleave(s, r, i + 1)

Replace_Overlap(s, p, r) ==
    IF p = <<>> THEN Interleave(s, r, 1) ELSE ScanOverlap(s, p, r, 1)

Replace_DropTail(s, p, r) ==
    IF p = <<>> THEN Interleave(s, r, 1)
    ELSE Scan(SubSeq(s, 1, Len(s) - Len(p) + 1), p, r, 1)

Replace(s, p, r) ==
    IF p = <<>> THEN Interleave(s, r, 1) ELSE Scan(s, p, r, 1)

(* ------------------------------ rules ---------------------------------- *)
Rule(p, r) == [pattern |-> p, repl |-> r]

\* the script's rule: old and new are the same literal
ScriptRules_Typo == {<<Rule(p, p \o <<"b">>)>> : p \in Str(MaxPat) \ {<<>>}}
ScriptRules == {<<Rule(p, p)>> : p \in Str(MaxPat) \ {<<>>}}

NamedRules ==
    { Rule(<<"a">>, <<"b">>), Rule(<<"b">>, <<"c">>), Rule(<<"a", "a">>, <<"b">>),
      Rule(<<"a">>, <<"a", "a">>), Rule(<<"a", "b">>, <<>>), Rule(<<"c">>, <<"a">>),
      Rule(<<>>, <<"c">>) }

WideRules == {Rule(p, r) : p \in Str(MaxPat), r \in Str(MaxRepl)}

RuleLists == UNION {[1..k -> NamedRules] : k \in 0..MaxRules}

SingleRule == {<<>>} \cup {<<r>> : r \in NamedRules}

(* ------------------------------ write ---------------------------------- *)
\* a write of new at offset 0 of a file that holds old
Overlay(old, new) == new \o SubSeq(old, Len(new) + 1, Len(old))

(* ------------------------------ Init ----------------------------------- *)
InitProc ==
    /\ pc = [p \in Procs |-> "L4"]
    /\ content = [p \in Procs |-> <<>>]
    /\ idx = [p \in Procs |-> 1]
    /\ err = [p \in Procs |-> "none"]
    /\ rpath = [p \in Procs |-> "none"]
    /\ wpath = [p \in Procs |-> "none"]
    /\ lastWriter = 0
    /\ fs0 = fs

Init ==
    /\ \E f \in {Absent} \cup {File(s) : s \in Str(MaxLen)} :
          fs = [x \in Paths |-> IF x = Target THEN f ELSE File(<<"b">>)]
    /\ \E r \in BOOLEAN, w \in BOOLEAN :
          perm = [x \in Paths |-> IF x = Target THEN [r |-> r, w |-> w]
                                  ELSE [r |-> TRUE, w |-> TRUE]]
    /\ rules \in SingleRule
    /\ InitProc

(* ----------------------------- actions --------------------------------- *)
\* line 4: open(path, 'r')
OpenReadOK_NoCheck(p) ==
    /\ pc[p] = "L4"
    /\ perm[ReadPath].r \/ ~fs[ReadPath].exists
    /\ pc' = [pc EXCEPT ![p] = "L5"]
    /\ rpath' = [rpath EXCEPT ![p] = ReadPath]
    /\ UNCHANGED <<fs, perm, rules, content, idx, err, wpath, lastWriter, fs0>>

OpenReadOK(p) ==
    /\ pc[p] = "L4"
    /\ fs[ReadPath].exists
    /\ perm[ReadPath].r
    /\ pc' = [pc EXCEPT ![p] = "L5"]
    /\ rpath' = [rpath EXCEPT ![p] = ReadPath]
    /\ UNCHANGED <<fs, perm, rules, content, idx, err, wpath, lastWriter, fs0>>

OpenReadNotFound(p) ==
    /\ pc[p] = "L4"
    /\ ~fs[ReadPath].exists
    /\ pc' = [pc EXCEPT ![p] = "failed"]
    /\ err' = [err EXCEPT ![p] = "NotFound"]
    /\ UNCHANGED <<fs, perm, rules, content, idx, rpath, wpath, lastWriter, fs0>>

OpenReadDenied(p) ==
    /\ pc[p] = "L4"
    /\ fs[ReadPath].exists
    /\ ~perm[ReadPath].r
    /\ pc' = [pc EXCEPT ![p] = "failed"]
    /\ err' = [err EXCEPT ![p] = "AccessDenied"]
    /\ UNCHANGED <<fs, perm, rules, content, idx, rpath, wpath, lastWriter, fs0>>

\* line 5: content = f.read()
Read(p) ==
    /\ pc[p] = "L5"
    /\ content' = [content EXCEPT ![p] = fs[rpath[p]].data]
    /\ pc' = [pc EXCEPT ![p] = IF Len(rules) = 0 THEN "L10" ELSE "L8"]
    /\ UNCHANGED <<fs, perm, rules, idx, err, rpath, wpath, lastWriter, fs0>>

\* line 8: content = content.replace(old, new), once per rule
Transform_Independent(p) ==
    /\ pc[p] = "L8"
    /\ content' = [content EXCEPT ![p] =
          Replace(fs[rpath[p]].data, rules[idx[p]].pattern, rules[idx[p]].repl)]
    /\ idx' = [idx EXCEPT ![p] = idx[p] + 1]
    /\ pc' = [pc EXCEPT ![p] = IF idx[p] = Len(rules) THEN "L10" ELSE "L8"]
    /\ UNCHANGED <<fs, perm, rules, err, rpath, wpath, lastWriter, fs0>>

Transform(p) ==
    /\ pc[p] = "L8"
    /\ content' = [content EXCEPT ![p] =
          Replace(content[p], rules[idx[p]].pattern, rules[idx[p]].repl)]
    /\ idx' = [idx EXCEPT ![p] = idx[p] + 1]
    /\ pc' = [pc EXCEPT ![p] = IF idx[p] = Len(rules) THEN "L10" ELSE "L8"]
    /\ UNCHANGED <<fs, perm, rules, err, rpath, wpath, lastWriter, fs0>>

\* line 10: open(path, 'w') creates or truncates the file
OpenWriteOK_NoPermCheck(p) ==
    /\ pc[p] = "L10"
    /\ fs' = [fs EXCEPT ![WritePath] = File(<<>>)]
    /\ wpath' = [wpath EXCEPT ![p] = WritePath]
    /\ pc' = [pc EXCEPT ![p] = "L11"]
    /\ UNCHANGED <<perm, rules, content, idx, err, rpath, lastWriter, fs0>>

OpenWriteOK_NoTrunc(p) ==
    /\ pc[p] = "L10"
    /\ fs[WritePath].exists => perm[WritePath].w
    /\ fs' = [fs EXCEPT ![WritePath] = File(fs[WritePath].data)]
    /\ wpath' = [wpath EXCEPT ![p] = WritePath]
    /\ pc' = [pc EXCEPT ![p] = "L11"]
    /\ UNCHANGED <<perm, rules, content, idx, err, rpath, lastWriter, fs0>>

OpenWriteOK(p) ==
    /\ pc[p] = "L10"
    /\ fs[WritePath].exists => perm[WritePath].w
    /\ fs' = [fs EXCEPT ![WritePath] = File(<<>>)]
    /\ wpath' = [wpath EXCEPT ![p] = WritePath]
    /\ pc' = [pc EXCEPT ![p] = "L11"]
    /\ UNCHANGED <<perm, rules, content, idx, err, rpath, lastWriter, fs0>>

OpenWriteDenied(p) ==
    /\ pc[p] = "L10"
    /\ fs[WritePath].exists
    /\ ~perm[WritePath].w
    /\ pc' = [pc EXCEPT ![p] = "failed"]
    /\ err' = [err EXCEPT ![p] = "AccessDenied"]
    /\ UNCHANGED <<fs, perm, rules, content, idx, rpath, wpath, lastWriter, fs0>>

\* line 11: f.write(content), flushed at offset 0 when the with block closes f
WriteOK_Append(p) ==
    /\ pc[p] = "L11"
    /\ fs' = [fs EXCEPT ![wpath[p]] = File(fs[wpath[p]].data \o content[p])]
    /\ lastWriter' = p
    /\ pc' = [pc EXCEPT ![p] = "done"]
    /\ UNCHANGED <<perm, rules, content, idx, err, rpath, wpath, fs0>>

WriteOK(p) ==
    /\ pc[p] = "L11"
    /\ fs' = [fs EXCEPT ![wpath[p]] = File(Overlay(fs[wpath[p]].data, content[p]))]
    /\ lastWriter' = p
    /\ pc' = [pc EXCEPT ![p] = "done"]
    /\ UNCHANGED <<perm, rules, content, idx, err, rpath, wpath, fs0>>

\* the write stops after k characters (storage exhausted, device error)
WriteFail(p) ==
    /\ pc[p] = "L11"
    /\ \E k \in 0..(Len(content[p]) - 1) :
          fs' = [fs EXCEPT ![wpath[p]] =
                    File(Overlay(fs[wpath[p]].data, SubSeq(content[p], 1, k)))]
    /\ pc' = [pc EXCEPT ![p] = "failed"]
    /\ err' = [err EXCEPT ![p] = "WriteFailure"]
    /\ UNCHANGED <<perm, rules, content, idx, rpath, wpath, lastWriter, fs0>>

Step(p) ==
    \/ OpenReadOK(p)
    \/ Read(p)
    \/ Transform(p)
    \/ OpenWriteOK(p)
    \/ WriteOK(p)

Fault(p) ==
    \/ OpenReadNotFound(p)
    \/ OpenReadDenied(p)
    \/ OpenWriteDenied(p)
    \/ WriteFail(p)

Next == \E p \in Procs : Step(p) \/ Fault(p)

Spec == Init /\ [][Next]_vars

(* ------------- one run, no fault, wide rule lists ----------------------- *)
InitSeq ==
    /\ \E s \in Str(MaxLen) :
          fs = [x \in Paths |-> IF x = Target THEN File(s) ELSE File(<<"b">>)]
    /\ perm = [x \in Paths |-> [r |-> TRUE, w |-> TRUE]]
    /\ rules \in RuleLists \cup {<<r>> : r \in WideRules}
    /\ InitProc

NextSeq == Step(1)

SeqSpec == InitSeq /\ [][NextSeq]_vars

(* ------------- two runs of the script as written, no fault -------------- *)
InitScript ==
    /\ \E s \in Str(MaxLen) :
          fs = [x \in Paths |-> IF x = Target THEN File(s) ELSE File(<<"b">>)]
    /\ perm = [x \in Paths |-> [r |-> TRUE, w |-> TRUE]]
    /\ rules \in ScriptRules
    /\ InitProc

NextScript == \E p \in Procs : Step(p)

\* every started run is scheduled until it exits
ScriptSpec == InitScript /\ [][NextScript]_vars /\ \A p \in Procs : WF_vars(Step(p))

(* ======================= properties ==================================== *)
Terminal(p) == pc[p] \in {"done", "failed"}
Isolated(p) == \A q \in Procs \ {p} : pc[q] = "L4"
AllDone == \A p \in Procs : pc[p] = "done"
Orig == fs0[Target].data
Now == fs[Target].data

\* the rules rs[k..] applied one after another, each to the previous result
RECURSIVE ApplyFrom(_, _, _)
ApplyFrom(s, rs, k) ==
    IF k > Len(rs) THEN s
    ELSE ApplyFrom(Replace(s, rs[k].pattern, rs[k].repl), rs, k + 1)

Occurs(p, s) == \E i \in 1..(Len(s) + 1) : MatchAt(s, p, i)

Matches(s, p) == {i \in 1..(Len(s) + 1) : MatchAt(s, p, i)}

Taken(s, p) ==
    CHOOSE S \in SUBSET Matches(s, p) :
        \A i \in Matches(s, p) :
            (i \in S) <=> ~(\E j \in S : j < i /\ i < j + Len(p))

\* out is s with every taken match replaced by r and every other character kept
IsReplacement(out, s, p, r) ==
    LET T == Taken(s, p)
        Kept == {i \in 1..Len(s) : ~(\E j \in T : j <= i /\ i < j + Len(p))}
        Before(i) == Cardinality({k \in Kept : k < i})
    IN  /\ Len(out) = Cardinality(Kept) + Len(r) * Cardinality(T)
        /\ \A i \in Kept :
              out[Before(i) + Len(r) * Cardinality({j \in T : j <= i}) + 1] = s[i]
        /\ \A j \in T : \A k \in 1..Len(r) :
              out[Before(j) + Len(r) * Cardinality({m \in T : m < j}) + k] = r[k]

\* C2: one rule replaces every non-overlapping occurrence of the pattern, left
\* to right, resuming after each replaced match; "aaa" with ("aa","b") is "ba".
C2_NonOverlappingReplace ==
    (Len(rules) = 1 /\ pc[1] \in {"L10", "L11", "done"}) =>
        /\ IsReplacement(content[1], Orig, rules[1].pattern, rules[1].repl)
        /\ (Orig = <<"a", "a", "a">> /\ rules = <<Rule(<<"a", "a">>, <<"b">>)>>)
              => content[1] = <<"b", "a">>

C2_Witness ==
    /\ pc[1] = "done"
    /\ Orig = <<"a", "a", "a">>
    /\ rules = <<Rule(<<"a", "a">>, <<"b">>)>>
    /\ Now = <<"b", "a">>

\* C3: when no pattern of the rules occurs in the file (the empty rule list
\* included), the run ends without error and the file holds what it held.
NoPatternOccurs == \A k \in 1..Len(rules) : ~Occurs(rules[k].pattern, Orig)

C4_AllOrNothing ==
    \A p \in Procs :
        (Isolated(p) /\ Terminal(p)) =>
            \/ pc[p] = "done" /\ fs[Target] = File(ApplyFrom(Orig, rules, 1))
            \/ pc[p] = "failed" /\ fs = fs0

\* C5: on a missing target the run ends in NotFound at the read step and no
\* open for write, creation or truncation ever happens.
C5_MissingFileNoWrite ==
    ~fs0[Target].exists =>
        \A p \in Procs :
            /\ pc[p] \in {"L4", "failed"}
            /\ pc[p] = "failed" => err[p] = "NotFound"
            /\ wpath[p] = "none"
            /\ fs = fs0

C5_Witness ==
    /\ ~fs0[Target].exists
    /\ pc[1] = "failed"
    /\ err[1] = "NotFound"

\* C6: on a readable, unwritable target the run ends in AccessDenied and the
\* file holds what it held before the run.
C6_ReadOnlyTargetUnchanged ==
    (fs0[Target].exists /\ perm[Target].r /\ ~perm[Target].w) =>
        \A p \in Procs :
            /\ pc[p] # "done"
            /\ pc[p] = "failed" => err[p] = "AccessDenied"
            /\ fs = fs0

C6_Witness ==
    /\ fs0[Target].exists /\ perm[Target].r /\ ~perm[Target].w
    /\ Orig # <<>>
    /\ pc[1] = "failed"
    /\ err[1] = "AccessDenied"
    /\ content[1] # Orig

C8_OnlyTargetChanges ==
    /\ [](\A p \in Procs : wpath[p] # "none" => wpath[p] = rpath[p] /\ wpath[p] = Target)
    /\ [][/\ fs'[Other] = fs[Other]
          /\ perm' = perm
          /\ rules' = rules
          /\ \A p \in Procs : \A q \in Procs \ {p} :
                pc'[p] # pc[p] => /\ pc'[q] = pc[q]
                                  /\ content'[q] = content[q]
                                  /\ err'[q] = err[q]]_vars

C8_Witness ==
    /\ pc[1] = "done"
    /\ pc[2] = "failed"
    /\ fs[Target] # fs0[Target]
    /\ fs[Other] = fs0[Other]

====
